---- MODULE Spec2Model ----
\* State-machine model of scripts/create.ts (src/unnamed/part_000): the
\* `create <name> [--folder <folder>]` scaffolding script.  One run of the
\* script is modelled: argument parsing (lines 43-84), the async main
\* function (lines 86-320) and the filesystem requests it leaves in flight.
EXTENDS Integers, Sequences, FiniteSets, TLC

VARIABLES
  name,          \* argv.name (line 87)
  folder,        \* argv.folder (line 88); NoFolder when the option is absent
  packageAuthor, \* what userName() returns (line 110)
  chalkThrows,   \* environment: the installed chalk rejects the usage template
  targetExists,  \* environment: packages/<folderName> exists before the run
  ambient,       \* environment: which ambient file is unreadable, or "ok"
  env,           \* environment: how each filesystem request will end
  pc,            \* position of the async main function
  fs,            \* the target directory tree: relative path -> content
  op,            \* state of each asynchronous filesystem request
  writes,        \* number of writeFile requests issued per file
  data,          \* the data argument of each writeFile request issued
  createdDir,    \* the path mkdirSync created (line 267), or NoDir
  out,           \* what the run printed, in order
  uncaught       \* the main function's promise was rejected (nobody handles it)

vars == <<name, folder, packageAuthor, chalkThrows, targetExists, ambient, env,
          pc, fs, op, writes, data, createdDir, out, uncaught>>

-----------------------------------------------------------------------------
\* Inputs

NoFolder == "<undefined>"
NoDir == <<>>
Null == "<null>"

\* "widgets" and "my-widgets" are valid npm package names, "Invalid Name!"
\* is not (capital letters, a space and "!").
Names == {"widgets", "my-widgets", "Invalid Name!"}
Folders == {NoFolder, "", "widgets-pkg"}
\* git-user-name: no configured user, an empty user.name, a configured user.
GitUsers == {Null, "", "Alice"}
Ambients == {"ok", "noLicense", "noRootManifest"}

\* validate-npm-package-name on the modelled names (lines 13, 90-91).
npmValiddate(n) ==
  IF n \in {"widgets", "my-widgets"}
  THEN [validForNewPackages |-> TRUE, errors |-> <<>>]
  ELSE [validForNewPackages |-> FALSE,
        errors |-> <<"name can only contain URL-friendly characters">>]

\* camelcase on the modelled names (lines 15, 188).
camelCase(n) == CASE n = "widgets" -> "widgets"
                  [] n = "my-widgets" -> "myWidgets"
                  [] OTHER -> "invalidName!"

\* JavaScript truthiness of an optional string: undefined, null and "" are
\* falsy.
Truthy(s) == s \notin {NoFolder, Null, ""}

\* line 88: const folderName = argv.folder || name
\* (faulty variant: the override is ignored)
folderName_ignoreOverride == name
folderName == IF Truthy(folder) THEN folder ELSE name

\* line 102: join(workspaceDir, "packages", folderName), relative to the
\* workspace root.
dir == <<"packages", folderName>>

\* line 109
packageName == "@ganache/" \o name

\* line 113: the workspace root manifest.
rootPackageJson ==
  [author |-> "David Murdoch",
   devDependencies |->
     [types_mocha |-> "8.2.2", cross_env |-> "7.0.3", mocha |-> "8.4.0",
      nyc |-> "15.1.0", ts_node |-> "9.1.1", typescript |-> "4.1.3"]]

-----------------------------------------------------------------------------
\* JSON values and JSON.stringify

JStr(s) == [t |-> "s", v |-> s]
JNum(n) == [t |-> "n", v |-> n]
JArr(items) == [t |-> "a", m |-> items]
JObj(members) == [t |-> "o", m |-> members]   \* members: <<key, value>> pairs

\* A text is a sequence of lines; a line is its count of leading spaces and
\* the rest.  A text that ends in "\n" has an empty last line.
L(n, s) == [ind |-> n, txt |-> s]
Quote(s) == "\"" \o s \o "\""

RECURSIVE JoinCompact(_, _)
JoinCompact(parts, i) ==
  IF i > Len(parts) THEN ""
  ELSE parts[i][1] \o parts[i][2][1].txt
       \o (IF i < Len(parts) THEN "," ELSE "")
       \o JoinCompact(parts, i + 1)

\* The lines of member i of a container printed with a gap: the first line
\* carries the key and the member's indentation, the last one the comma.
MemberLines(parts, i, g, d) ==
  LET ls == parts[i][2]
      n == Len(ls)
      comma == IF i < Len(parts) THEN "," ELSE ""
  IN [k \in 1..n |->
        LET base == IF k = 1 THEN L(g * (d + 1), parts[i][1] \o ls[1].txt)
                             ELSE ls[k]
        IN IF k = n THEN L(base.ind, base.txt \o comma) ELSE base]

RECURSIVE FlattenMembers(_, _, _, _)
FlattenMembers(parts, i, g, d) ==
  IF i > Len(parts) THEN <<>>
  ELSE MemberLines(parts, i, g, d) \o FlattenMembers(parts, i + 1, g, d)

Container(open, close, parts, g, d) ==
  IF Len(parts) = 0 THEN <<L(0, open \o close)>>
  ELSE IF g = 0 THEN <<L(0, open \o JoinCompact(parts, 1) \o close)>>
  ELSE <<L(0, open)>> \o FlattenMembers(parts, 1, g, d) \o <<L(g * d, close)>>

\* JSON.stringify(v, null, g): g = 0 is the call without a space argument.
RECURSIVE Stringify(_, _, _)
Stringify(v, g, d) ==
  CASE v.t = "s" -> <<L(0, Quote(v.v))>>
    [] v.t = "n" -> <<L(0, ToString(v.v))>>
    [] v.t = "a" ->
         Container("[", "]",
                   [i \in 1..Len(v.m) |-> <<"", Stringify(v.m[i], g, d + 1)>>],
                   g, d)
    [] v.t = "o" ->
         Container("{", "}",
                   [i \in 1..Len(v.m) |->
                      <<Quote(v.m[i][1]) \o (IF g = 0 THEN ":" ELSE ": "),
                        Stringify(v.m[i][2], g, d + 1)>>],
                   g, d)

JSONstringify(v, g) == Stringify(v, g, 0)

\* String concatenation of two texts: the last line of the first and the
\* first line of the second become one line.  Every use in the script has an
\* empty line on one side of the seam.
TextConcat(a, b) ==
  LET la == a[Len(a)]
      seam == IF la.txt = "" /\ la.ind = 0 THEN b[1] ELSE la
  IN SubSeq(a, 1, Len(a) - 1) \o <<seam>> \o Tail(b)

\* The text "\n"
Newline == <<L(0, ""), L(0, "")>>

\* The characters of a text: each line's leading spaces and rest, the lines
\* separated by "\n".
RECURSIVE Spaces(_)
Spaces(n) == IF n = 0 THEN "" ELSE " " \o Spaces(n - 1)

RECURSIVE FlatFrom(_, _)
FlatFrom(text, i) ==
  Spaces(text[i].ind) \o text[i].txt
  \o (IF i = Len(text) THEN "" ELSE "\n" \o FlatFrom(text, i + 1))

Flat(text) == FlatFrom(text, 1)

-----------------------------------------------------------------------------
\* The generated documents (lines 109-197, 217-224, 239-247, 261, 276-288)

version == "0.1.0"

\* line 122: packageAuthor || rootPackageJson.author
author ==
  IF Truthy(packageAuthor) THEN packageAuthor ELSE rootPackageJson.author

pkg ==
  JObj(<<
    <<"name", JStr(packageName)>>,
    <<"publishConfig", JObj(<< <<"access", JStr("public")>> >>)>>,
    <<"version", JStr(version)>>,
    <<"description", JStr("")>>,
    <<"author", JStr(author)>>,
    <<"homepage",
      JStr("https://github.com/trufflesuite/ganache/tree/develop/packages/"
           \o folderName \o "#readme")>>,
    <<"license", JStr("MIT")>>,
    <<"main", JStr("lib/index.js")>>,
    <<"typings", JStr("typings")>>,
    <<"source", JStr("index.ts")>>,
    <<"directories",
      JObj(<< <<"lib", JStr("lib")>>, <<"test", JStr("tests")>> >>)>>,
    <<"files", JArr(<<JStr("lib"), JStr("typings")>>)>>,
    <<"repository",
      JObj(<< <<"type", JStr("git")>>,
              <<"url", JStr("https://github.com/trufflesuite/ganache.git")>>,
              <<"directory", JStr("packages/" \o folderName)>> >>)>>,
    <<"scripts",
      JObj(<< <<"tsc", JStr("ttsc --build")>>,
              <<"test", JStr("nyc npm run mocha")>>,
              <<"mocha", JStr("cross-env TS_NODE_FILES=true mocha --exit --check-leaks --throw-deprecation --trace-warnings --require ts-node/register 'tests/**/*.test.ts'")>> >>)>>,
    <<"bugs",
      JObj(<< <<"url", JStr("https://github.com/trufflesuite/ganache/issues")>> >>)>>,
    <<"keywords",
      JArr(<<JStr("ganache"), JStr("ganache-" \o name), JStr("ethereum"),
             JStr("evm"), JStr("blockchain"), JStr("smart contracts"),
             JStr("dapps"), JStr("solidity"), JStr("vyper"), JStr("fe"),
             JStr("web3"), JStr("tooling"), JStr("truffle")>>)>>,
    <<"devDependencies",
      JObj(<< <<"@types/mocha", JStr(rootPackageJson.devDependencies.types_mocha)>>,
              <<"cross-env", JStr(rootPackageJson.devDependencies.cross_env)>>,
              <<"mocha", JStr(rootPackageJson.devDependencies.mocha)>>,
              <<"nyc", JStr(rootPackageJson.devDependencies.nyc)>>,
              <<"ts-node", JStr(rootPackageJson.devDependencies.ts_node)>>,
              <<"typescript", JStr(rootPackageJson.devDependencies.typescript)>> >>)>>
  >>)

tsConfig ==
  JObj(<<
    <<"extends", JStr("../" \o "tsconfig-base.json")>>,
    <<"compilerOptions",
      JObj(<< <<"outDir", JStr("lib")>>, <<"declarationDir", JStr("typings")>> >>)>>,
    <<"include", JArr(<<JStr("src"), JStr("index.ts")>>)>>
  >>)

shrinkwrap ==
  JObj(<<
    <<"name", JStr(packageName)>>,
    <<"version", JStr(version)>>,
    <<"lockfileVersion", JNum(1)>>
  >>)

testFile ==
  <<L(0, "import assert from \"assert\";"),
    L(0, "import " \o camelCase(name) \o " from \"../src/\";"),
    L(0, ""),
    L(0, "describe(\"" \o packageName \o "\", () => {"),
    L(2, "it(\"needs tests\");"),
    L(0, "})")>>

indexFile ==
  <<L(0, "export default {"), L(2, "// TODO"), L(0, "}"), L(0, "")>>

headerdoc ==
  <<L(0, "/*!"),
    L(2, "* " \o packageName),
    L(2, "*"),
    L(2, "* @author " \o author),
    L(2, "* @license MIT"),
    L(0, "*/"),
    L(0, ""),
    L(0, "")>>

npmignore ==
  <<L(0, "/index.ts"), L(0, "/tests"), L(0, "/.nyc_output"), L(0, "/coverage"),
    L(0, "/scripts"), L(0, "/src"), L(0, "/tsconfig.json"),
    L(0, "/typedoc.json"), L(0, "")>>

\* The package name stands between backquotes in the source; BQ stands for
\* the backquote character.
BQ == "<backquote>"
readme ==
  <<L(0, "# " \o BQ \o packageName \o BQ), L(0, "> TODO: description")>>

\* The workspace LICENSE text as read at line 105.
LICENSE == <<L(0, "MIT License"), L(0, "")>>

\* prettier.format(text, {...prettierConfig, parser}): the formatter is an
\* external collaborator; its result is kept as an uninterpreted term over
\* the text and the parser it was given.  Every text built from the
\* modelled names parses, so the call returns.
prettierFormat(text, parser) ==
  "prettier(" \o parser \o "):\n" \o Flat(text)

\* line 261
pkgStr == Flat(TextConcat(JSONstringify(pkg, 2), Newline))

-----------------------------------------------------------------------------
\* Paths below the target directory

Root == "."
SubDirs == {"tests", "src"}
ChainedFile(d) == IF d = "tests" THEN "tests/index.test.ts" ELSE "src/index.ts"
ChainedFiles == {ChainedFile(d) : d \in SubDirs}

\* Every file the script writes (lines 205, 226, 238, 249, 256, 275, 279,
\* 262/285, 287).
Files ==
  {".npmignore", "LICENSE", "index.ts", "src/index.ts", "tests/index.test.ts",
   "tsconfig.json", "README.md", "package.json", "npm-shrinkwrap.json"}

\* The writes the Promise.all array issues while it is built (lines
\* 270-271, 274-289): initRootFiles, initIndex and the four writeFile calls.
\* (faulty variant: the README write is left out of the array)
DirectFiles_noReadme ==
  {".npmignore", "LICENSE", "index.ts", "tsconfig.json", "package.json",
   "npm-shrinkwrap.json"}
DirectFiles ==
  {".npmignore", "LICENSE", "index.ts", "tsconfig.json", "README.md",
   "package.json", "npm-shrinkwrap.json"}

Requests == Files \cup SubDirs
Paths == {Root} \cup Requests

\* The data each writeFile call is given, as a string.
Content(f) ==
  CASE f = ".npmignore" -> Flat(npmignore)
    [] f = "LICENSE" -> Flat(LICENSE)
    [] f = "index.ts" ->
         prettierFormat(TextConcat(headerdoc, indexFile), "typescript")
    [] f = "src/index.ts" -> prettierFormat(indexFile, "typescript")
    [] f = "tests/index.test.ts" -> prettierFormat(testFile, "typescript")
    [] f = "tsconfig.json" ->
         Flat(TextConcat(JSONstringify(tsConfig, 2), Newline))
    [] f = "README.md" -> prettierFormat(readme, "markdown")
    [] f = "package.json" -> pkgStr
    [] f = "npm-shrinkwrap.json" ->
         Flat(TextConcat(JSONstringify(shrinkwrap, 0), Newline))

-----------------------------------------------------------------------------
\* The filesystem and the requests

\* An entry of the tree: absent, a directory, or a file with its data.
Absent == [kind |-> "absent", data |-> ""]
Dir == [kind |-> "dir", data |-> ""]
File(bytes) == [kind |-> "file", data |-> bytes]
\* What a target directory left by an earlier run holds.
Preexisting == File("{}\n")

InitFs(exists) ==
  [p \in Paths |-> IF exists /\ p = Root THEN Dir
                   ELSE IF exists /\ p = "package.json" THEN Preexisting
                   ELSE Absent]

\* lines 105 and 113: readFileSync(LICENSE) and require("../package.json")
\* throw when the file is missing.
\* (faulty variant: a missing LICENSE goes unnoticed)
readFileThrows_never == FALSE
readFileThrows == ambient = "noLicense"
requireThrows == ambient = "noRootManifest"

\* line 267: fs.mkdirSync without the recursive option throws EEXIST on an
\* existing directory.
\* (faulty variant: ensureDir semantics, an existing directory is accepted)
mkdirSyncThrows_ensureDir == FALSE
mkdirSyncThrows == targetExists

\* lines 269-290: the requests issued while the Promise.all array is built.
\* (faulty variant: initTests() and initSrc() called without waiting for mkdir)
IssuedAtFanOut_eager == Requests
IssuedAtFanOut == DirectFiles \cup SubDirs

\* Promise.all (lines 236, 269): rejected as soon as one element is, that is
\* when a request failed.
\* (faulty variant: the writeFile promises are not returned to Promise.all)
Rejected_ignoreWrites(o) == \E d \in SubDirs : o[d] = "failed"
Rejected(o) == \E r \in Requests : o[r] = "failed"

\* Promise.all is fulfilled when every element is: every direct write, and
\* for each subdirectory the mkdir and the write chained on it.
\* (faulty variant: Promise.race, fulfilled with the first element)
AllFulfilled_race(o) == \E r \in Requests : o[r] = "done"
AllFulfilled(o) ==
  /\ \A f \in DirectFiles : o[f] = "done"
  /\ \A d \in SubDirs : o[d] = "done" /\ o[ChainedFile(d)] = "done"

\* lines 313-319: the catch block prints and touches no file.
\* (faulty variant: the catch block removes the target tree)
AfterCatch_rollback(f) == [p \in Paths |-> Absent]
AfterCatch(f) == f

FailOutput == <<"error", "fail">>               \* lines 314-318
SuccessOutput == <<"pkgStr", "success", "hint">>  \* lines 292-312

\* The catch block, entered with the filesystem as f.
Catch(f) ==
  /\ pc' = "done"
  /\ out' = out \o FailOutput
  /\ fs' = AfterCatch(f)

\* What the delivery of a request's callback does to the main function,
\* which is suspended at the await of line 269 while pc = "awaiting": the
\* rejection or fulfilment of Promise.all resumes it in the same turn of the
\* event loop.
Settle(o, f) ==
  IF pc = "awaiting" /\ Rejected(o) THEN Catch(f)
  ELSE IF pc = "awaiting" /\ AllFulfilled(o)
       THEN pc' = "done" /\ out' = out \o SuccessOutput /\ fs' = f
       ELSE pc' = pc /\ out' = out /\ fs' = f

\* How the environment ends a request of lines 269-290: "ok"; "EPERM", the
\* open or the mkdir is refused; "ENOSPC", the disk is full, the file is
\* created but no data is stored, a directory is not made; "EFBIG", the
\* file may not grow beyond FileSizeLimit characters.
Errors == {"ok", "EPERM", "ENOSPC", "EFBIG"}
FileSizeLimit == 512

\* Nothing fails.
EnvOk == [r \in Requests |-> "ok"]
\* One write is refused.
EnvReadme == [EnvOk EXCEPT !["README.md"] = "EPERM"]
\* Several requests fail, each in its own way.
EnvMixed ==
  [EnvOk EXCEPT !["README.md"] = "EPERM", !["LICENSE"] = "EPERM",
                !["package.json"] = "EFBIG", !["src"] = "EPERM"]
\* The disk fills up once src is made.
EnvFull == [r \in Requests |-> IF r = "src" THEN "ok" ELSE "ENOSPC"]
Environments == {EnvOk, EnvReadme, EnvMixed, EnvFull}

\* The structured documents and the tests directory can be written, every
\* other request is refused.
StructuredDocs == {"package.json", "tsconfig.json", "npm-shrinkwrap.json"}
DocsEnv ==
  [r \in Requests |-> IF r \in StructuredDocs \cup {"tests"} THEN "ok"
                                                              ELSE "EPERM"]

-----------------------------------------------------------------------------
\* The run

InitRun(names, folders, users, envs) ==
  /\ name \in names
  /\ folder \in folders
  /\ packageAuthor \in users
  /\ chalkThrows \in BOOLEAN
  /\ targetExists \in BOOLEAN
  /\ ambient \in Ambients
  /\ env \in envs
  /\ pc = "argv"
  /\ fs = InitFs(targetExists)
  /\ op = [r \in Requests |-> "notIssued"]
  /\ writes = [f \in Files |-> 0]
  /\ data = [f \in Files |-> ""]
  /\ createdDir = NoDir
  /\ out = <<>>
  /\ uncaught = FALSE

\* lines 43-84: yargs parses the arguments and runs the command builder,
\* which evaluates the chalk template of line 47.  chalk 2 to 4 read
\* "{Create " as a style and throw "Unknown Chalk style: Create": the module
\* dies before the main function is entered.  The chalk the repository pins
\* is not part of the source, so whether it throws is the environment's.
ParseArgs ==
  /\ pc = "argv"
  /\ pc' = IF chalkThrows THEN "crashed" ELSE "start"
  /\ UNCHANGED <<name, folder, packageAuthor, chalkThrows, targetExists,
                 ambient, env, fs, op, writes, data, createdDir, out, uncaught>>

\* lines 87-107: validate the name (a throw here is outside the try block and
\* rejects the main function's promise), read LICENSE, and suspend at
\* await prettier.resolveConfig.
Start ==
  /\ pc = "start"
  /\ IF ~npmValiddate(name).validForNewPackages
     THEN /\ pc' = "rejected"
          /\ uncaught' = TRUE
          /\ UNCHANGED <<out, fs>>
     ELSE /\ UNCHANGED uncaught
          /\ IF readFileThrows
             THEN Catch(fs)
             ELSE pc' = "resolveConfig" /\ UNCHANGED <<out, fs>>
  /\ UNCHANGED <<name, folder, packageAuthor, chalkThrows, targetExists,
                 ambient, env, op, writes, data, createdDir>>

\* lines 109-290: load the root manifest, build the documents, announce the
\* manifest path, create the target directory and issue the fan-out; the
\* function then suspends at await Promise.all.
Generate ==
  /\ pc = "resolveConfig"
  /\ IF requireThrows
     THEN Catch(fs) /\ UNCHANGED <<op, writes, data, createdDir>>
     ELSE IF mkdirSyncThrows
     THEN /\ pc' = "done"
          /\ out' = out \o <<"about">> \o FailOutput
          /\ fs' = AfterCatch(fs)
          /\ UNCHANGED <<op, writes, data, createdDir>>
     ELSE /\ pc' = "awaiting"
          /\ out' = out \o <<"about">>
          /\ fs' = [fs EXCEPT ![Root] = Dir]
          /\ createdDir' = dir
          /\ op' = [r \in Requests |->
                      IF r \in IssuedAtFanOut THEN "inflight" ELSE op[r]]
          /\ writes' = [f \in Files |->
                          IF f \in IssuedAtFanOut THEN writes[f] + 1
                                                  ELSE writes[f]]
          /\ data' = [f \in Files |->
                        IF f \in IssuedAtFanOut THEN Content(f) ELSE data[f]]
  /\ UNCHANGED <<name, folder, packageAuthor, chalkThrows, targetExists,
                 ambient, env, uncaught>>

\* What the environment lets the write(2) of writeFile(f) store: all the
\* data, nothing on a full disk, or the first FileSizeLimit characters under
\* a file-size limit.
Min(a, b) == IF a < b THEN a ELSE b
Stored(f) ==
  CASE env[f] = "ENOSPC" -> ""
    [] env[f] = "EFBIG" ->
         SubSeq(data[f], 1, Min(FileSizeLimit, Len(data[f])))
    [] OTHER -> data[f]

\* fs-extra's writeFile is fs.writeFile: it opens the path with flag w,
\* writes the data and closes, each step a request to the thread pool, the
\* event loop running between them.  The open creates the file, empty.
OpenFile(f) ==
  /\ op[f] = "inflight"
  /\ fs[f] = Absent
  /\ env[f] # "EPERM"
  /\ fs' = [fs EXCEPT ![f] = File("")]
  /\ UNCHANGED <<name, folder, packageAuthor, chalkThrows, targetExists,
                 ambient, env, pc, op, writes, data, createdDir, out,
                 uncaught>>

\* The write of writeFile(f) is carried out: what it stores is on disk
\* before the callback is delivered.
WriteData(f) ==
  /\ op[f] = "inflight"
  /\ fs[f] = File("")
  /\ Stored(f) # ""
  /\ fs' = [fs EXCEPT ![f] = File(Stored(f))]
  /\ UNCHANGED <<name, folder, packageAuthor, chalkThrows, targetExists,
                 ambient, env, pc, op, writes, data, createdDir, out,
                 uncaught>>

\* The thread pool carries out mkdir(d).
PerformMkdir(d) ==
  /\ op[d] = "inflight"
  /\ fs[d] = Absent
  /\ env[d] = "ok"
  /\ fs' = [fs EXCEPT ![d] = Dir]
  /\ UNCHANGED <<name, folder, packageAuthor, chalkThrows, targetExists,
                 ambient, env, pc, op, writes, data, createdDir, out,
                 uncaught>>

\* writeFile(f) has succeeded: all of its data is in the file.
WriteSucceeded(f) == fs[f] = File(data[f])
\* writeFile(f) has failed: the open was refused, or the write stored less
\* than the data.  What it stored stays in the file.
WriteFailed(f) ==
  \/ env[f] = "EPERM" /\ fs[f] = Absent
  \/ fs[f] = File(Stored(f)) /\ Stored(f) # data[f]

\* The callback of writeFile(f) is delivered: the promise is fulfilled
\* (ok) or rejected, and the main function resumes when that settles the
\* Promise.all it awaits.
CompleteWrite(f, ok) ==
  /\ op[f] = "inflight"
  /\ IF ok THEN WriteSucceeded(f) ELSE WriteFailed(f)
  /\ LET o == [op EXCEPT ![f] = IF ok THEN "done" ELSE "failed"]
     IN /\ op' = o
        /\ Settle(o, fs)
  /\ UNCHANGED <<name, folder, packageAuthor, chalkThrows, targetExists,
                 ambient, env, writes, data, createdDir, uncaught>>

\* The callback of mkdir(d) is delivered and, when the mkdir succeeded, the
\* .then callback (initTests, initSrc) formats the stub and issues the write
\* (lines 272-273, 203-211, 254-259).
CompleteMkdir(d, ok) ==
  /\ op[d] = "inflight"
  /\ IF ok THEN fs[d] = Dir ELSE env[d] # "ok" /\ fs[d] = Absent
  /\ LET o == [op EXCEPT ![d] = IF ok THEN "done" ELSE "failed",
                         ![ChainedFile(d)] = IF ok THEN "inflight" ELSE @]
     IN /\ op' = o
        /\ writes' = IF ok THEN [writes EXCEPT ![ChainedFile(d)] = @ + 1]
                           ELSE writes
        /\ data' = IF ok THEN [data EXCEPT ![ChainedFile(d)] =
                                               Content(ChainedFile(d))]
                         ELSE data
        /\ Settle(o, fs)
  /\ UNCHANGED <<name, folder, packageAuthor, chalkThrows, targetExists,
                 ambient, env, createdDir, uncaught>>

Next ==
  \/ ParseArgs
  \/ Start
  \/ Generate
  \/ \E f \in Files : OpenFile(f)
  \/ \E f \in Files : WriteData(f)
  \/ \E d \in SubDirs : PerformMkdir(d)
  \/ \E f \in Files, ok \in BOOLEAN : CompleteWrite(f, ok)
  \/ \E d \in SubDirs, ok \in BOOLEAN : CompleteMkdir(d, ok)

\* The runs of `create widgets` and `create "Invalid Name!"` in each
\* environment of Environments: the steps of the requests are carried out
\* and their callbacks delivered in any order.
Init ==
  InitRun({"widgets", "Invalid Name!"}, {NoFolder}, {Null}, Environments)

Spec == Init /\ [][Next]_vars

\* The documents of every input: the runs of every name, folder override
\* and git user, in any order of the requests, in the environment DocsEnv.
InitDocs == InitRun(Names, Folders, GitUsers, {DocsEnv})

SpecDocs == InitDocs /\ [][Next]_vars

TypeOK ==
  /\ env \in [Requests -> Errors]
  /\ pc \in {"argv", "crashed", "start", "resolveConfig", "awaiting", "done",
             "rejected"}
  /\ op \in [Requests -> {"notIssued", "inflight", "done", "failed"}]
  /\ \A p \in Paths : fs[p].kind \in {"absent", "dir", "file"}
  /\ uncaught \in BOOLEAN

-----------------------------------------------------------------------------
\* Properties

Reported(m) == \E i \in 1..Len(out) : out[i] = m
NothingIssued ==
  /\ \A r \in Requests : op[r] = "notIssued"
  /\ \A f \in Files : writes[f] = 0
ValidName == npmValiddate(name).validForNewPackages
\* The write of f was issued and all of its data is on disk.
Written(f) == writes[f] > 0 /\ WriteSucceeded(f)

\* C1: when the target directory exists before the run, the run fails at
\* mkdirSync: the tree is left exactly as it was, no mkdir and no writeFile
\* is issued, and the failure message is printed.
C1_ExistingTargetUntouched ==
  targetExists =>
    /\ fs = InitFs(TRUE)
    /\ NothingIssued
    /\ createdDir = NoDir
    /\ (ValidName /\ ambient = "ok" /\ pc = "done")
         => (Reported("fail") /\ ~Reported("success"))

C1_Witness ==
  /\ targetExists /\ ValidName /\ ambient = "ok"
  /\ pc = "done" /\ Reported("about") /\ Reported("fail")

\* C2: the write into tests (src) is issued only once mkdir(tests)
\* (mkdir(src)) has completed successfully; when that mkdir failed the write
\* is never issued.
C2_ChainedWriteAfterMkdir ==
  \A d \in SubDirs :
    /\ op[ChainedFile(d)] # "notIssued" => (op[d] = "done" /\ fs[d] = Dir)
    /\ op[d] = "failed" =>
         (op[ChainedFile(d)] = "notIssued" /\ writes[ChainedFile(d)] = 0)

C2_Witness ==
  /\ op["tests/index.test.ts"] = "inflight"
  /\ op["src"] = "failed"

\* C3 as stated: a failed write makes the run report failure, and once the
\* failure is reported no write that was not yet issued is issued.
C3_NoWriteAfterFailure ==
  /\ []((\E f \in Files : op[f] = "failed") => Reported("fail"))
  /\ [][Reported("fail") =>
          \A f \in Files : op[f] = "notIssued" => op'[f] = "notIssued"]_vars

\* C3 amended: a failed write makes the run report failure, and once the
\* failure is reported the only writes still issued are the two chained on a
\* subdirectory, each at the successful completion of its mkdir, which was
\* in flight.
C3_OnlyChainedWritesAfterFailure ==
  /\ []((\E f \in Files : op[f] = "failed") => Reported("fail"))
  /\ [][Reported("fail") =>
          \A f \in Files :
            (op[f] = "notIssued" /\ op'[f] # "notIssued") =>
              \E d \in SubDirs : /\ f = ChainedFile(d)
                                 /\ op[d] = "inflight"
                                 /\ op'[d] = "done"]_vars

C3_Witness ==
  /\ Reported("fail")
  /\ op["README.md"] = "failed"
  /\ \A r \in Requests \ {"README.md", "tests/index.test.ts"} : op[r] = "done"
  /\ op["tests/index.test.ts"] = "inflight"

\* C4: the success message is printed only when every write and both
\* subdirectory creations have completed successfully, never with a request
\* in flight or failed, and never together with the failure message.
C4_SuccessOnlyAfterAll ==
  Reported("success") =>
    /\ \A r \in Requests : op[r] = "done"
    /\ ~Reported("fail")
    /\ pc = "done"

C4_Witness == Reported("success") /\ \A r \in Requests : op[r] = "done"

\* C5: nothing is created or written before mkdirSync created the target
\* directory; a run with an invalid name or an unreadable LICENSE or root
\* manifest never creates a directory or writes a file.
C5_NoMutationBeforeMkdir ==
  /\ createdDir = NoDir => (fs = InitFs(targetExists) /\ NothingIssued)
  /\ (~ValidName \/ ambient # "ok") => createdDir = NoDir

C5_Witness ==
  /\ ValidName /\ ambient = "noLicense" /\ pc = "done"
  /\ fs = InitFs(targetExists)

\* C6: every failing run of the main function ends with the failure message
\* printed by the catch block, and no failure leaves the main function
\* uncaught.
C6_AllFailuresCaught ==
  /\ ~uncaught
  /\ (pc \in {"done", "rejected"} /\ ~Reported("success")) => Reported("fail")

\* s is the beginning of t.
IsPrefix(s, t) == Len(s) <= Len(t) /\ SubSeq(t, 1, Len(s)) = s

\* C7: nothing that exists in the target tree is ever removed or rewritten,
\* in particular not by the failure path: a directory stays, a file stays a
\* file and keeps what was written to it (a write in progress only adds to
\* it), and a file whose write has completed or failed is never touched
\* again.
C7_NoRollback ==
  [][\A p \in Paths :
       /\ fs[p].kind = "dir" => fs'[p] = fs[p]
       /\ fs[p].kind = "file" =>
            /\ fs'[p].kind = "file"
            /\ IsPrefix(fs[p].data, fs'[p].data)
            /\ (p \in Files /\ op[p] \in {"done", "failed"})
                 => fs'[p] = fs[p]]_vars

C7_Witness ==
  /\ Reported("fail")
  /\ op["package.json"] = "failed"
  /\ fs["package.json"] =
       File(SubSeq(data["package.json"], 1, FileSizeLimit))
  /\ fs[Root] = Dir
  /\ op[".npmignore"] = "done"
  /\ fs[".npmignore"] = File(data[".npmignore"])
  /\ fs["tests"] = Dir

\* The written manifest and the written lockfile stub carry the name n:
\* the name is the first member of both.
ManifestNameIs(n) ==
  /\ Written("package.json") =>
       IsPrefix("{\n  \"name\": \"" \o n \o "\",\n",
                fs["package.json"].data)
  /\ Written("npm-shrinkwrap.json") =>
       fs["npm-shrinkwrap.json"].data =
         "{\"name\":\"" \o n
           \o "\",\"version\":\"0.1.0\",\"lockfileVersion\":1}\n"

\* C8 as stated: the manifest and the lockfile stub are named
\* @ganache/<name>, and the created directory is packages/<folder> whenever
\* a folder override is given, else packages/<name>.
C8_DirIsOverrideWhenGiven ==
  createdDir # NoDir =>
    /\ ManifestNameIs("@ganache/" \o name)
    /\ createdDir = <<"packages", IF folder # NoFolder THEN folder ELSE name>>

\* C8 amended: the same, the created directory being packages/<folder> when
\* a non-empty folder override is given, else packages/<name>.
C8_DirIsNonEmptyOverride ==
  createdDir # NoDir =>
    /\ ManifestNameIs("@ganache/" \o name)
    /\ createdDir =
         <<"packages", IF folder \notin {NoFolder, ""} THEN folder ELSE name>>

C8_Witness ==
  /\ name = "widgets" /\ folder = "widgets-pkg"
  /\ createdDir = <<"packages", "widgets-pkg">>
  /\ Written("package.json") /\ Written("npm-shrinkwrap.json")

\* The persisted layout of section 6 of the specification.
PersistedLayout ==
  {"package.json", "tsconfig.json", "npm-shrinkwrap.json", "LICENSE",
   "README.md", ".npmignore", "index.ts", "src/index.ts",
   "tests/index.test.ts"}

\* C9: a run that reports success leaves exactly the nine files of the
\* persisted layout, each written once with its document, in the package
\* root and the two subdirectories src and tests.
C9_LayoutOnSuccess ==
  Reported("success") =>
    /\ {f \in Files : fs[f].kind = "file"} = PersistedLayout
    /\ Cardinality(PersistedLayout) = Cardinality(Files)
    /\ \A f \in PersistedLayout : writes[f] = 1 /\ fs[f] = File(Content(f))
    /\ \A d \in SubDirs \cup {Root} : fs[d] = Dir

C9_Witness ==
  /\ Reported("success")
  /\ \A f \in PersistedLayout : fs[f] = File(Content(f))

\* A structured document printed with a two-space indentation: the members
\* of the top-level object stand on lines of their own, indented by a
\* multiple of two, the first by two; the text ends in one newline.
TwoSpaceIndented(text) ==
  /\ Len(text) >= 4
  /\ text[1] = L(0, "{")
  /\ text[2].ind = 2
  /\ \A i \in 2..(Len(text) - 2) : text[i].ind >= 2 /\ text[i].ind % 2 = 0
  /\ text[Len(text) - 1] = L(0, "}")

SingleTrailingNewline(text) ==
  /\ Len(text) >= 2
  /\ text[Len(text)] = L(0, "")
  /\ text[Len(text) - 1].txt # ""

\* The object each structured document is printed from.
StructuredDoc(f) ==
  CASE f = "package.json" -> pkg
    [] f = "tsconfig.json" -> tsConfig
    [] f = "npm-shrinkwrap.json" -> shrinkwrap

\* C10: every structured document written (package.json, tsconfig.json,
\* npm-shrinkwrap.json) is printed with a two-space indentation and ends in
\* a single newline.
C10_StructuredDocsIndented ==
  \A f \in StructuredDocs :
    Written(f) =>
      LET text == TextConcat(JSONstringify(StructuredDoc(f), 2), Newline)
      IN /\ TwoSpaceIndented(text)
         /\ SingleTrailingNewline(text)
         /\ fs[f].data = Flat(text)

====
